---- MODULE Spec2Model ----
(***************************************************************************)
(* Model of the Observ Python SDK (package watchtower): one Observ session, *)
(* one wrapped provider client, and the provider adapter's intercepted      *)
(* completion call (create / generate_content) as a step machine.           *)
(***************************************************************************)
EXTENDS Integers, Sequences, FiniteSets, TLC

(***************************************************************************)
(* Bounds of the model.                                                     *)
(***************************************************************************)
\* completion calls issued by the application on the wrapped client
MaxCalls == 2
\* depth of the interpreter's call stack, counted in adapter frames
\* (Python raises RecursionError beyond its recursion limit)
MaxDepth == 2
\* the longest message sequence handed to a normalizer
MaxMessages == 2

(***************************************************************************)
(* Python values.  Every value is a record with a tag t.                    *)
(***************************************************************************)
None == [t |-> "none"]
Str(s) == [t |-> "str", s |-> s]
Num(n) == [t |-> "int", n |-> n]
List(xs) == [t |-> "list", xs |-> xs]
Dict(d) == [t |-> "dict", d |-> d]
Obj(a) == [t |-> "obj", a |-> a]
\* the empty mapping, as the domain-less function
NoKeys == <<>>

\* Python truthiness, as used by `or` and `if x:`
Truthy(v) ==
    CASE v.t = "none" -> FALSE
      [] v.t = "str" -> v.s # ""
      [] v.t = "int" -> v.n # 0
      [] v.t = "list" -> Len(v.xs) > 0
      [] v.t = "dict" -> DOMAIN v.d # {}
      [] OTHER -> TRUE

\* results of a computation that may raise
Ok(v) == [ok |-> TRUE, v |-> v]
Raise(e) == [ok |-> FALSE, exc |-> e]

\* dict.get(key, default)
DictGet(v, k, default) == IF k \in DOMAIN v.d THEN v.d[k] ELSE default
\* hasattr(v, name): only objects of the model carry attributes
HasAttr(v, k) == v.t = "obj" /\ k \in DOMAIN v.a
\* getattr(v, name, default)
GetAttr(v, k, default) == IF HasAttr(v, k) THEN v.a[k] ELSE default

(***************************************************************************)
(* The call's arguments: *args as a sequence, **kwargs as a mapping.        *)
(***************************************************************************)
Args(pos, kw) == [pos |-> pos, kw |-> kw]
KwGet(args, k, default) == IF k \in DOMAIN args.kw THEN args.kw[k] ELSE default

Providers == {"anthropic", "mistral", "gemini"}
\* the entry points whose adapters speak the OpenAI-compatible shape
OpenAIEntries == {"openai", "xai", "openrouter"}

(***************************************************************************)
(* Python primitives that may raise.                                        *)
(***************************************************************************)
\* x[0]
Index0(v) ==
    CASE v.t = "list" -> IF Len(v.xs) > 0 THEN Ok(v.xs[1]) ELSE Raise("IndexError")
      [] v.t = "str" -> IF v.s # "" THEN Ok(Str(SubSeq(v.s, 1, 1))) ELSE Raise("IndexError")
      [] v.t = "dict" -> Raise("KeyError")
      [] OTHER -> Raise("TypeError")

\* len(x)
PyLen(v) ==
    CASE v.t = "list" -> Ok(Len(v.xs))
      [] v.t = "str" -> Ok(Len(v.s))
      [] v.t = "dict" -> Ok(Cardinality(DOMAIN v.d))
      [] OTHER -> Raise("TypeError")

\* x.name
Attr(v, k) == IF HasAttr(v, k) THEN Ok(v.a[k]) ELSE Raise("AttributeError")

\* a + b
PyAdd(a, b) ==
    CASE a.t = "int" /\ b.t = "int" -> Ok(Num(a.n + b.n))
      [] a.t = "str" /\ b.t = "str" -> Ok(Str(a.s \o b.s))
      [] OTHER -> Raise("TypeError")

\* str(x): a string stays itself, anything else becomes its printed form
PyStr(v) ==
    CASE v.t = "str" -> v
      [] v.t = "int" -> Str(ToString(v.n))
      [] v.t = "none" -> Str("None")
      [] OTHER -> [t |-> "str", s |-> "<repr>", of |-> v]

\* a or b
PyOr(a, b) == IF Truthy(a) THEN a ELSE b

\* the items a for loop visits; iterating a non-iterable raises TypeError
Iterate(v) ==
    CASE v.t = "list" -> Ok(v.xs)
      [] v.t = "str" -> Ok([i \in 1..Len(v.s) |-> Str(SubSeq(v.s, i, i))])
      [] v.t = "dict" ->
           LET keys == DOMAIN v.d
               order == CHOOSE f \in [1..Cardinality(keys) -> keys] :
                            \A i, j \in 1..Cardinality(keys) : i # j => f[i] # f[j]
           IN Ok([i \in 1..Cardinality(keys) |-> Str(order[i])])
      [] OTHER -> Raise("TypeError")

\* the first failure among a sequence of results, or the sequence of values
Collect(rs) ==
    IF \E i \in 1..Len(rs) : ~rs[i].ok
    THEN rs[CHOOSE i \in 1..Len(rs) : ~rs[i].ok /\ \A j \in 1..(i-1) : rs[j].ok]
    ELSE Ok(List([i \in 1..Len(rs) |-> rs[i].v]))

CanonicalMessage(role, content) == Dict([role |-> role, content |-> content])

(***************************************************************************)
(* Message Normalizer (providers/base.py).                                  *)
(***************************************************************************)
ConvertMessage(msg) ==
    IF msg.t = "dict"
    THEN CanonicalMessage(DictGet(msg, "role", Str("user")),
                          DictGet(msg, "content", Str("")))
    ELSE CanonicalMessage(GetAttr(msg, "role", Str("user")),
                          GetAttr(msg, "content", Str("")))

\* mutant: the messages come out in reverse order
convert_messages_reversed(messages) ==
    LET it == Iterate(messages)
    IN IF ~it.ok THEN it
       ELSE Ok(List([i \in 1..Len(it.v) |-> ConvertMessage(it.v[Len(it.v) + 1 - i])]))

convert_messages_to_gateway_format(messages) ==
    LET it == Iterate(messages)
    IN IF ~it.ok THEN it
       ELSE Ok(List([i \in 1..Len(it.v) |-> ConvertMessage(it.v[i])]))

(***************************************************************************)
(* The Gemini variant of the normalizer (providers/gemini.py).              *)
(***************************************************************************)
GeminiConvertItem(item) ==
    IF item.t = "dict"
    THEN \* the default of item.get("content", ...) is evaluated first
         LET first == Index0(DictGet(item, "parts", List(<<Str("")>>)))
         IN IF ~first.ok THEN first
            ELSE Ok(CanonicalMessage(DictGet(item, "role", Str("user")),
                                     DictGet(item, "content", PyStr(first.v))))
    ELSE IF HasAttr(item, "parts")
    THEN IF Truthy(item.a.parts)
         THEN LET first == Index0(item.a.parts)
                  text == IF first.ok THEN Attr(first.v, "text") ELSE first
              IN IF ~text.ok THEN text
                 ELSE Ok(CanonicalMessage(Str("user"), text.v))
         ELSE Ok(CanonicalMessage(Str("user"), Str("")))
    ELSE Ok(CanonicalMessage(Str("user"), PyStr(item)))

GeminiConvertPrompt(prompt) ==
    IF prompt.t = "str"
    THEN Ok(List(<<CanonicalMessage(Str("user"), prompt)>>))
    ELSE IF prompt.t = "list"
    THEN Collect([i \in 1..Len(prompt.xs) |-> GeminiConvertItem(prompt.xs[i])])
    ELSE Ok(List(<<CanonicalMessage(Str("user"), PyStr(prompt))>>))

(***************************************************************************)
(* Completion Request Builder (providers/base.py).                          *)
(***************************************************************************)
\* mutant: chained metadata switches the session's recall flag off
build_completion_request_metadata_alters(provider, model, gateway_messages, observ_instance, metadata, session_id) ==
    LET request ==
            [provider |-> provider,
             model |-> model,
             messages |-> gateway_messages,
             features |-> [trace |-> TRUE,
                           recall |-> observ_instance.recall /\ ~Truthy(metadata),
                           resilience |-> FALSE,
                           adapt |-> FALSE],
             environment |-> observ_instance.environment,
             metadata |-> metadata]
    IN IF Truthy(session_id)
       THEN request @@ ("external_session_id" :> session_id)
       ELSE request

build_completion_request(provider, model, gateway_messages, observ_instance, metadata, session_id) ==
    LET request ==
            [provider |-> provider,
             model |-> model,
             messages |-> gateway_messages,
             features |-> [trace |-> TRUE,
                           recall |-> observ_instance.recall,
                           resilience |-> FALSE,
                           adapt |-> FALSE],
             environment |-> observ_instance.environment,
             metadata |-> metadata]
    IN IF Truthy(session_id)
       THEN request @@ ("external_session_id" :> session_id)
       ELSE request

(***************************************************************************)
(* Argument extraction and request preparation of each adapter: the code    *)
(* between the consume-and-reset and the try block.  The result is the      *)
(* extracted model with the request envelope, or the exception raised.      *)
(***************************************************************************)
\* mutant: the first positional argument is preferred to the keyword
ExtractMessagesPositionalFirst(args) ==
    IF Len(args.pos) > 0 THEN args.pos[1] ELSE KwGet(args, "messages", List(<<>>))

ExtractMessages(args) ==
    KwGet(args, "messages", IF Len(args.pos) > 0 THEN args.pos[1] ELSE List(<<>>))

ExtractModel(args, default) ==
    KwGet(args, "model", IF Len(args.pos) > 1 THEN args.pos[2] ELSE Str(default))

ExtractPrompt(args) ==
    PyOr(PyOr(KwGet(args, "prompt", None), KwGet(args, "contents", None)),
         IF Len(args.pos) > 0 THEN args.pos[1] ELSE Str(""))

Prepared(model, request) == Ok([model |-> model, request |-> request])

AnthropicPrepare(args, wt, metadata, session_id) ==
    LET model == ExtractModel(args, "claude-3-5-sonnet-20241022")
        gateway_messages == convert_messages_to_gateway_format(ExtractMessages(args))
    IN IF ~gateway_messages.ok THEN gateway_messages
       ELSE Prepared(model, build_completion_request(
                "anthropic", model, gateway_messages.v, wt, metadata, session_id))

MistralPrepare(args, wt, metadata, session_id) ==
    LET model == ExtractModel(args, "mistral-large-latest")
        gateway_messages == convert_messages_to_gateway_format(ExtractMessages(args))
    IN IF ~gateway_messages.ok THEN gateway_messages
       ELSE Prepared(model, build_completion_request(
                "mistral", model, gateway_messages.v, wt, metadata, session_id))

GeminiPrepare(args, wt, original_model, metadata, session_id) ==
    LET model == GetAttr(original_model, "_model_name", Str("gemini-pro"))
        gateway_messages == GeminiConvertPrompt(ExtractPrompt(args))
    IN IF ~gateway_messages.ok THEN gateway_messages
       ELSE Prepared(model, build_completion_request(
                "gemini", model, gateway_messages.v, wt, metadata, session_id))

Prepare(p, args, wt, original, metadata, session_id) ==
    CASE p = "anthropic" -> AnthropicPrepare(args, wt, metadata, session_id)
      [] p = "mistral" -> MistralPrepare(args, wt, metadata, session_id)
      [] p = "gemini" -> GeminiPrepare(args, wt, original, metadata, session_id)

(***************************************************************************)
(* Response Synthesizer: the object each adapter fabricates on a cache hit. *)
(***************************************************************************)
AnthropicSynthesize(cached_content, model) ==
    Obj([content |-> List(<<Obj([text |-> cached_content, type |-> Str("text")])>>),
         role |-> Str("assistant"),
         model |-> model,
         stop_reason |-> Str("end_turn"),
         usage |-> Obj([input_tokens |-> Num(0), output_tokens |-> Num(0)])])

MistralSynthesize(cached_content, model) ==
    Obj([choices |-> List(<<Obj([message |-> Obj([role |-> Str("assistant"),
                                                  content |-> cached_content]),
                                 finish_reason |-> Str("stop")])>>),
         model |-> model,
         usage |-> Obj([prompt_tokens |-> Num(0),
                        completion_tokens |-> Num(0),
                        total_tokens |-> Num(0)])])

GeminiSynthesize(cached_content, model) ==
    Obj([text |-> cached_content,
         candidates |-> List(<<Obj([content |->
                            Obj([parts |-> List(<<Obj([text |-> cached_content])>>),
                                 role |-> Str("model")])])>>),
         usage_metadata |-> Obj([prompt_token_count |-> Num(0),
                                 candidates_token_count |-> Num(0),
                                 total_token_count |-> Num(0)])])

\* mutant: the cached content and the model change places
SynthesizeArgsSwapped(p, cached_content, model) ==
    CASE p = "anthropic" -> AnthropicSynthesize(model, cached_content)
      [] p = "mistral" -> MistralSynthesize(model, cached_content)
      [] p = "gemini" -> GeminiSynthesize(model, cached_content)

Synthesize(p, cached_content, model) ==
    CASE p = "anthropic" -> AnthropicSynthesize(cached_content, model)
      [] p = "mistral" -> MistralSynthesize(cached_content, model)
      [] p = "gemini" -> GeminiSynthesize(cached_content, model)

(***************************************************************************)
(* Callback Reporter (watchtower/__init__.py): the payload each family's    *)
(* reporter builds from a response, or the exception raised while it reads  *)
(* the response.                                                            *)
(***************************************************************************)
CallbackPayload(trace_id, content, duration_ms, tokens_used) ==
    IF ~content.ok THEN content
    ELSE IF ~tokens_used.ok THEN tokens_used
    ELSE Ok([trace_id |-> trace_id, content |-> content.v,
             duration_ms |-> duration_ms, tokens_used |-> tokens_used.v])

\* response.content[0].text
AnthropicContent(response) ==
    IF ~HasAttr(response, "content") THEN Ok(Str(""))
    ELSE LET n == PyLen(response.a.content)
         IN IF ~n.ok THEN n
            ELSE IF n.v > 0
            THEN LET first == Index0(response.a.content)
                 IN IF first.ok THEN Attr(first.v, "text") ELSE first
            ELSE Ok(Str(""))

AnthropicTokens(response) ==
    IF HasAttr(response, "usage")
    THEN PyAdd(GetAttr(response.a.usage, "input_tokens", Num(0)),
               GetAttr(response.a.usage, "output_tokens", Num(0)))
    ELSE Ok(Num(0))

send_callback(trace_id, response, duration_ms) ==
    CallbackPayload(trace_id, AnthropicContent(response), duration_ms,
                    AnthropicTokens(response))

\* response.choices[0].message.content or ""
ChoicesContent(response) ==
    IF ~HasAttr(response, "choices") THEN Ok(Str(""))
    ELSE LET n == PyLen(response.a.choices)
         IN IF ~n.ok THEN n
            ELSE IF n.v > 0
            THEN LET first == Index0(response.a.choices)
                     message == IF first.ok THEN Attr(first.v, "message") ELSE first
                 IN IF ~message.ok THEN message
                    ELSE IF HasAttr(message.v, "content")
                    THEN Ok(PyOr(message.v.a.content, Str("")))
                    ELSE Ok(Str(""))
            ELSE Ok(Str(""))

\* mutant: the part counts are preferred to the explicit total
ChoicesTokensPartsFirst(response) ==
    IF ~HasAttr(response, "usage") THEN Ok(Num(0))
    ELSE LET usage == response.a.usage
         IN IF HasAttr(usage, "prompt_tokens") /\ HasAttr(usage, "completion_tokens")
            THEN PyAdd(usage.a.prompt_tokens, usage.a.completion_tokens)
            ELSE IF HasAttr(usage, "total_tokens") THEN Ok(usage.a.total_tokens)
            ELSE Ok(Num(0))

ChoicesTokens(response) ==
    IF ~HasAttr(response, "usage") THEN Ok(Num(0))
    ELSE LET usage == response.a.usage
         IN IF HasAttr(usage, "total_tokens") THEN Ok(usage.a.total_tokens)
            ELSE IF HasAttr(usage, "prompt_tokens") /\ HasAttr(usage, "completion_tokens")
            THEN PyAdd(usage.a.prompt_tokens, usage.a.completion_tokens)
            ELSE Ok(Num(0))

send_callback_openai(trace_id, response, duration_ms) ==
    CallbackPayload(trace_id, ChoicesContent(response), duration_ms,
                    ChoicesTokens(response))

send_callback_mistral(trace_id, response, duration_ms) ==
    CallbackPayload(trace_id, ChoicesContent(response), duration_ms,
                    ChoicesTokens(response))

\* response.text, else response.candidates[0].content.parts[0].text
GeminiContent(response) ==
    IF HasAttr(response, "text") THEN Ok(response.a.text)
    ELSE IF ~HasAttr(response, "candidates") THEN Ok(Str(""))
    ELSE LET n == PyLen(response.a.candidates)
         IN IF ~n.ok THEN n
            ELSE IF n.v > 0
            THEN LET candidate == Index0(response.a.candidates)
                 IN IF ~candidate.ok THEN candidate
                    ELSE IF HasAttr(candidate.v, "content")
                            /\ HasAttr(candidate.v.a.content, "parts")
                    THEN LET parts == candidate.v.a.content.a.parts
                             m == PyLen(parts)
                         IN IF ~m.ok THEN m
                            ELSE IF m.v > 0
                            THEN LET part == Index0(parts)
                                 IN IF part.ok THEN Attr(part.v, "text") ELSE part
                            ELSE Ok(Str(""))
                    ELSE Ok(Str(""))
            ELSE Ok(Str(""))

GeminiTokens(response) ==
    IF ~HasAttr(response, "usage_metadata") THEN Ok(Num(0))
    ELSE LET usage == response.a.usage_metadata
         IN IF HasAttr(usage, "total_token_count") THEN Ok(usage.a.total_token_count)
            ELSE IF HasAttr(usage, "prompt_token_count")
                    /\ HasAttr(usage, "candidates_token_count")
            THEN PyAdd(usage.a.prompt_token_count, usage.a.candidates_token_count)
            ELSE Ok(Num(0))

send_callback_gemini(trace_id, response, duration_ms) ==
    CallbackPayload(trace_id, GeminiContent(response), duration_ms,
                    GeminiTokens(response))

\* the reporter each adapter calls on the pass-through path
Reporter(p, trace_id, response, duration_ms) ==
    CASE p = "anthropic" -> send_callback(trace_id, response, duration_ms)
      [] p = "mistral" -> send_callback_mistral(trace_id, response, duration_ms)
      [] p = "gemini" -> send_callback_gemini(trace_id, response, duration_ms)
      [] p \in OpenAIEntries -> send_callback_openai(trace_id, response, duration_ms)

(***************************************************************************)
(* Inputs of the model.                                                     *)
(***************************************************************************)
Unset == [t |-> "unset"]
EmptyMetadata == Dict(NoKeys)
Metadatas == {EmptyMetadata, Dict([k |-> Str("v")])}
SessionIds == {Str(""), Str("s1")}
Environments == {"production", "staging"}
Durations == {0, 25}

MessageList == List(<<Dict([role |-> Str("user"), content |-> Str("hi")])>>)

\* the arguments the application passes to create / generate_content
CreateArgs ==
    { Args(<<>>, [messages |-> MessageList, model |-> Str("m1")]),
      Args(<<MessageList>>, NoKeys),
      Args(<<>>, [messages |-> None, model |-> Str("m1")]) }

GenerateArgs ==
    { Args(<<Str("hello")>>, NoKeys),
      Args(<<>>, [contents |-> List(<<Obj([parts |-> List(<<Obj([text |-> Str("hi")])>>)])>>)]),
      Args(<<>>, [contents |-> List(<<Dict([role |-> Str("user"),
                                            content |-> Str("hi"),
                                            parts |-> List(<<>>)])>>)]) }

ArgSet(p) == IF p = "gemini" THEN GenerateArgs ELSE CreateArgs

\* the wrapped Gemini models: with and without a _model_name
GeminiModels == {Obj(NoKeys), Obj("_model_name" :> Str("models/gemini-1.5-flash"))}

\* what the gateway's decide endpoint can answer
NotJson == [t |-> "notjson"]
DecideExchanges ==
    { [kind |-> "network_error"],
      [kind |-> "response", status |-> 500, body |-> NotJson],
      [kind |-> "response", status |-> 200, body |-> NotJson],
      [kind |-> "response", status |-> 200, body |-> List(<<>>)],
      [kind |-> "response", status |-> 200,
       body |-> Dict([action |-> Str("cache_hit"), content |-> Str("X")])],
      [kind |-> "response", status |-> 200, body |-> Dict([action |-> Str("cache_hit")])],
      [kind |-> "response", status |-> 200,
       body |-> Dict([action |-> Str("proceed"), trace_id |-> Str("tr1")])] }

\* what the callback endpoint can answer (the reporter ignores the status)
CallbackExchanges == {"ok", "network_error", "status_500"}

\* the responses of the stub provider, by shape
ResponseShapes == {"text", "sum", "odd"}

StubResponse(p, args, shape) ==
    CASE p = "anthropic" ->
           Obj([id |-> Str("msg_1"), echo |-> args,
                content |-> List(<<IF shape = "odd"
                                    THEN Obj([type |-> Str("tool_use")])
                                    ELSE Obj([type |-> Str("text"), text |-> Str("real")])>>),
                usage |-> Obj([input_tokens |-> Num(3), output_tokens |-> Num(4)])])
      [] p = "mistral" ->
           Obj([id |-> Str("cmpl_1"), echo |-> args,
                choices |-> List(<<IF shape = "odd"
                                    THEN Obj([finish_reason |-> Str("stop")])
                                    ELSE Obj([message |-> Obj([content |-> Str("real")])])>>),
                usage |-> IF shape = "sum"
                          THEN Obj([prompt_tokens |-> Num(10), completion_tokens |-> Num(5)])
                          ELSE Obj([prompt_tokens |-> Num(10), completion_tokens |-> Num(5),
                                    total_tokens |-> Num(42)])])
      [] p = "gemini" ->
           IF shape = "text"
           THEN Obj([echo |-> args, text |-> Str("real"),
                     usage_metadata |-> Obj([total_token_count |-> Num(42)])])
           ELSE Obj([echo |-> args,
                     candidates |-> List(<<Obj([content |-> Obj([parts |->
                          List(<<IF shape = "odd" THEN Obj(NoKeys)
                                 ELSE Obj([text |-> Str("real")])>>)])])>>),
                     usage_metadata |-> Obj([prompt_token_count |-> Num(10),
                                             candidates_token_count |-> Num(5)])])

(***************************************************************************)
(* State.                                                                   *)
(***************************************************************************)
VARIABLES
    wt,             \* the Observ session: recall, environment
    provider,       \* the provider of the wrapped client, "none" before wrapping
    client,         \* the client: what its call attribute resolves to
    original,       \* the adapter's _original_*: the SDK's call object, or the client
    original_model, \* the attributes of the wrapped Gemini model
    pending,        \* the adapter's _metadata and _session_id
    stack,          \* per thread: the adapter frames of the running call
    outcome,        \* per thread: how the last completion call ended
    calls,          \* completion calls issued so far
    chain,          \* history: what was chained since the last completion call
    own,            \* history: which call paths the chained state comes from
    cur,            \* history, per thread: the traffic of the current call
    evaluation      \* a function of the library applied on its own: input, result

vars == <<wt, provider, client, original, original_model, pending, stack,
          outcome, calls, chain, own, cur, evaluation>>

Threads == {1, 2}
\* the single call path of the sequential specification
MainThreads == {1}

NoChain == [metadata |-> Unset, session_id |-> Unset]
NoOutcome == [kind |-> "none"]
\* the call paths behind the chained state: those that chained since their
\* own last call, those that chained since the last call of any path, and
\* per path what held of both when it issued its call
NoOwn ==
    [waiting |-> {}, by |-> {},
     issued |-> [t \in Threads |-> [mine |-> FALSE, by |-> {}]]]
NoTraffic ==
    [args |-> Unset, chained |-> NoChain, sent |-> <<>>, posted |-> <<>>,
     events |-> <<>>,
     nProvider |-> 0, provArgs |-> Unset, provRet |-> Unset, provRaised |-> FALSE]

NewFrame(args) ==
    [pc |-> "l29", args |-> args, metadata |-> Unset, session_id |-> Unset,
     model |-> Unset, request |-> Unset, trace_id |-> Unset,
     actual_response |-> Unset, val |-> Unset,
     gw |-> "none", decision |-> Unset, cb |-> "none",
     nPost |-> 0, nInvoke |-> 0, nCallback |-> 0]

Depth(t) == Len(stack[t])
Top(t) == stack[t][Depth(t)]
SetTop(t, f) == [stack EXCEPT ![t] = [@ EXCEPT ![Len(@)] = f]]
At(t, pcs) == Depth(t) > 0 /\ Top(t).pc \in pcs

\* what self._original_*.create / generate_content resolves to
Resolve == IF original = "client" THEN client.call ELSE original

NoEvaluation == [fn |-> "none"]

\* the session, with a client not wrapped yet
InitSession ==
    /\ wt \in [recall : BOOLEAN, environment : Environments]
    /\ provider = "none"
    /\ client = [call |-> "sdk", entry |-> "none", type |-> "none",
                 installed |-> TRUE, wrap |-> "none"]
    /\ original = "none"
    /\ original_model = Obj(NoKeys)
    /\ pending = [metadata |-> Unset, session_id |-> Unset]
    /\ stack = [t \in Threads |-> <<>>]
    /\ outcome = [t \in Threads |-> NoOutcome]
    /\ calls = 0
    /\ chain = NoChain
    /\ own = NoOwn
    /\ cur = [t \in Threads |-> NoTraffic]

Init == InitSession /\ evaluation = NoEvaluation

(***************************************************************************)
(* Wrap entry points of Observ.                                             *)
(***************************************************************************)
\* the instance handed to a wrap entry point: of the provider's client type,
\* of another type without the call surface, or of another type that has an
\* attribute of the call surface's name
InstanceTypes == {"expected", "other", "lookalike"}

\* the client once the adapter is installed on its call surface
Wrapped(entry, inst) ==
    [call |-> "adapter", entry |-> entry, type |-> inst, installed |-> TRUE,
     wrap |-> "returned"]

\* the client after an entry point has raised: its call surface is as it was
NotWrapped(entry, inst, installed, exc) ==
    [client EXCEPT !.entry = entry, !.type = inst, !.installed = installed,
                   !.wrap = exc]

\* an entry point raises: nothing but the record of the attempt changes
WrapRaises(entry, inst, installed, exc) ==
    /\ client' = NotWrapped(entry, inst, installed, exc)
    /\ UNCHANGED <<evaluation, wt, provider, original, original_model, pending, stack,
                   outcome, calls, chain, own, cur>>

\* Observ.anthropic: client.messages = AnthropicMessagesWrapper(client.messages, self)
\* with no isinstance test; the anthropic package is imported with the module
WrapAnthropic(inst) ==
    /\ provider = "none" /\ client.wrap = "none"
    /\ IF inst = "other"
       THEN \* client.messages is read first: AttributeError
            WrapRaises("anthropic", inst, TRUE, "AttributeError")
       ELSE /\ provider' = "anthropic"
            /\ original' = client.call
            /\ client' = Wrapped("anthropic", inst)
            /\ pending' = [metadata |-> EmptyMetadata, session_id |-> None]
            /\ UNCHANGED <<evaluation, wt, original_model, stack, outcome, calls, chain, own, cur>>

\* try: import <package>; if isinstance(client, <type>): ...; return client
\* except ImportError: raise ImportError(...)
\* raise TypeError(...)
\* the outcome of the guarded entry points, "wrap" when the adapter is installed
GuardedOutcome(inst, installed) ==
    IF ~installed THEN "ImportError"
    ELSE IF inst = "expected" THEN "wrap"
    ELSE "TypeError"

\* Observ.mistral: client.chat.completions = MistralChatCompletionsWrapper(...)
WrapMistral(inst, installed) ==
    /\ provider = "none" /\ client.wrap = "none"
    /\ IF GuardedOutcome(inst, installed) # "wrap"
       THEN WrapRaises("mistral", inst, installed, GuardedOutcome(inst, installed))
       ELSE /\ provider' = "mistral"
            /\ original' = client.call
            /\ client' = Wrapped("mistral", inst)
            /\ pending' = [metadata |-> EmptyMetadata, session_id |-> None]
            /\ UNCHANGED <<evaluation, wt, original_model, stack, outcome, calls, chain, own, cur>>

\* Observ.gemini: wrapper = GeminiGenerateContentWrapper(model, self);
\* model.generate_content = wrapper.generate_content
WrapGemini(m, inst, installed) ==
    /\ provider = "none" /\ client.wrap = "none"
    /\ IF GuardedOutcome(inst, installed) # "wrap"
       THEN WrapRaises("gemini", inst, installed, GuardedOutcome(inst, installed))
       ELSE /\ provider' = "gemini"
            /\ original_model' = m
            /\ original' = "client"
            /\ client' = Wrapped("gemini", inst)
            /\ pending' = [metadata |-> EmptyMetadata, session_id |-> None]
            /\ UNCHANGED <<evaluation, wt, stack, outcome, calls, chain, own, cur>>

\* Observ.openai, Observ.xai, Observ.openrouter:
\* client.chat.completions = <Adapter>(client.chat.completions, self)
WrapOpenAICompatible(entry, inst, installed) ==
    /\ provider = "none" /\ client.wrap = "none"
    /\ entry \in OpenAIEntries
    /\ IF GuardedOutcome(inst, installed) # "wrap"
       THEN WrapRaises(entry, inst, installed, GuardedOutcome(inst, installed))
       ELSE /\ provider' = entry
            /\ original' = client.call
            /\ client' = Wrapped(entry, inst)
            /\ pending' = [metadata |-> EmptyMetadata, session_id |-> None]
            /\ UNCHANGED <<evaluation, wt, original_model, stack, outcome, calls, chain, own, cur>>

(***************************************************************************)
(* Chaining.                                                                *)
(***************************************************************************)
with_metadata(t, m) ==
    /\ provider \in Providers
    /\ Depth(t) = 0
    /\ pending' = [pending EXCEPT !.metadata = m]
    /\ chain' = [chain EXCEPT !.metadata = m]
    /\ own' = [own EXCEPT !.waiting = @ \cup {t}, !.by = @ \cup {t}]
    /\ UNCHANGED <<evaluation, wt, provider, client, original, original_model, stack,
                   outcome, calls, cur>>

with_session_id(t, s) ==
    /\ provider \in Providers
    /\ Depth(t) = 0
    /\ pending' = [pending EXCEPT !.session_id = s]
    /\ chain' = [chain EXCEPT !.session_id = s]
    /\ own' = [own EXCEPT !.waiting = @ \cup {t}, !.by = @ \cup {t}]
    /\ UNCHANGED <<evaluation, wt, provider, client, original, original_model, stack,
                   outcome, calls, cur>>

(***************************************************************************)
(* The intercepted completion call: create / generate_content.              *)
(***************************************************************************)
\* the application calls the wrapped client's call surface
Call(t, args) ==
    /\ provider \in Providers
    /\ client.call = "adapter"
    /\ client.type = "expected"
    /\ Depth(t) = 0
    /\ calls < MaxCalls
    /\ args \in ArgSet(provider)
    /\ stack' = [stack EXCEPT ![t] = <<NewFrame(args)>>]
    /\ calls' = calls + 1
    /\ outcome' = [outcome EXCEPT ![t] = NoOutcome]
    /\ cur' = [cur EXCEPT ![t] = [NoTraffic EXCEPT !.args = args, !.chained = chain]]
    /\ chain' = NoChain
    /\ own' = [waiting |-> own.waiting \ {t}, by |-> {},
               issued |-> [own.issued EXCEPT ![t] =
                              [mine |-> t \in own.waiting, by |-> own.by]]]
    /\ UNCHANGED <<evaluation, wt, provider, client, original, original_model, pending>>

\* metadata = self._metadata
LoadMetadata(t) ==
    /\ At(t, {"l29"})
    /\ stack' = SetTop(t, [Top(t) EXCEPT !.metadata = pending.metadata, !.pc = "l30"])
    /\ UNCHANGED <<evaluation, wt, provider, client, original, original_model, pending,
                   outcome, calls, chain, own, cur>>

\* session_id = self._session_id
LoadSessionId(t) ==
    /\ At(t, {"l30"})
    /\ stack' = SetTop(t, [Top(t) EXCEPT !.session_id = pending.session_id, !.pc = "l31"])
    /\ UNCHANGED <<evaluation, wt, provider, client, original, original_model, pending,
                   outcome, calls, chain, own, cur>>

\* mutant: the pending metadata is not reset
ClearMetadataSkipped(t) ==
    /\ At(t, {"l31"})
    /\ stack' = SetTop(t, [Top(t) EXCEPT !.pc = "l32"])
    /\ UNCHANGED <<evaluation, wt, provider, client, original, original_model, pending,
                   outcome, calls, chain, own, cur>>

\* self._metadata = {}
ClearMetadata(t) ==
    /\ At(t, {"l31"})
    /\ pending' = [pending EXCEPT !.metadata = EmptyMetadata]
    /\ stack' = SetTop(t, [Top(t) EXCEPT !.pc = "l32"])
    /\ UNCHANGED <<evaluation, wt, provider, client, original, original_model,
                   outcome, calls, chain, own, cur>>

\* self._session_id = None
ClearSessionId(t) ==
    /\ At(t, {"l32"})
    /\ pending' = [pending EXCEPT !.session_id = None]
    /\ stack' = SetTop(t, [Top(t) EXCEPT !.pc = "prepare"])
    /\ UNCHANGED <<evaluation, wt, provider, client, original, original_model,
                   outcome, calls, chain, own, cur>>

\* extraction, normalization and request building: outside the try block,
\* so an exception raised here leaves the frame
PrepareFrame(f, r) ==
    IF r.ok
    THEN [f EXCEPT !.model = r.v.model, !.request = r.v.request, !.pc = "post"]
    ELSE [f EXCEPT !.val = r.exc, !.pc = "raised"]

PrepareRequest(t) ==
    /\ At(t, {"prepare"})
    /\ stack' = SetTop(t, PrepareFrame(Top(t),
                    Prepare(provider, Top(t).args, wt, original_model,
                            Top(t).metadata, Top(t).session_id)))
    /\ UNCHANGED <<evaluation, wt, provider, client, original, original_model, pending,
                   outcome, calls, chain, own, cur>>

\* http_client.post(...); response.raise_for_status(); response.json():
\* the decision mapping, or the exception raised
GatewayResponse(exchange) ==
    IF exchange.kind = "network_error" THEN Raise("TransportError")
    ELSE IF exchange.status \notin 200..299 THEN Raise("HTTPStatusError")
    ELSE IF exchange.body = NotJson THEN Raise("JSONDecodeError")
    ELSE Ok(exchange.body)

\* mutant: the cache-hit branch builds its response and does not return
DecideFrameNoReturn(f, exchange) ==
    LET r == GatewayResponse(exchange)
        g == [f EXCEPT !.nPost = @ + 1]
    IN IF ~r.ok \/ r.v.t # "dict" THEN [g EXCEPT !.gw = "failed", !.pc = "fallback"]
       ELSE [g EXCEPT !.gw = IF DictGet(r.v, "action", None) = Str("cache_hit")
                             THEN "cache_hit" ELSE "proceed",
                      !.decision = r.v,
                      !.trace_id = DictGet(r.v, "trace_id", None),
                      !.pc = "invoke"]

\* the frame after the decide round trip: cache hit, pass-through, or the
\* except branch
DecideFrame(f, exchange) ==
    LET r == GatewayResponse(exchange)
        g == [f EXCEPT !.nPost = @ + 1]
    IN IF ~r.ok THEN [g EXCEPT !.gw = "failed", !.pc = "fallback"]
       ELSE IF r.v.t # "dict"
       THEN \* gateway_response.get raises AttributeError
            [g EXCEPT !.gw = "failed", !.pc = "fallback"]
       ELSE IF DictGet(r.v, "action", None) = Str("cache_hit")
       THEN [g EXCEPT !.gw = "cache_hit",
                      !.decision = r.v,
                      !.val = Synthesize(provider, DictGet(r.v, "content", Str("")), f.model),
                      !.pc = "returned"]
       ELSE [g EXCEPT !.gw = "proceed",
                      !.decision = r.v,
                      !.trace_id = DictGet(r.v, "trace_id", None),
                      !.pc = "invoke"]

Decide(t, exchange) ==
    /\ At(t, {"post"})
    /\ exchange \in DecideExchanges
    /\ stack' = SetTop(t, DecideFrame(Top(t), exchange))
    /\ cur' = [cur EXCEPT ![t].sent = Append(@, Top(t).request),
                          ![t].events = Append(@, "decide")]
    /\ UNCHANGED <<evaluation, wt, provider, client, original, original_model, pending,
                   outcome, calls, chain, own>>

\* how a frame goes on once its call of the original target has ended:
\* inside the try block a value goes to the reporter and an exception to the
\* except branch; in the except branch the value is returned and an
\* exception leaves the frame
Deliver(f, result) ==
    IF f.pc \in {"invoke", "wait_invoke"}
    THEN IF result.ok
         THEN [f EXCEPT !.actual_response = result.v, !.pc = "callback"]
         ELSE [f EXCEPT !.pc = "fallback"]
    ELSE IF result.ok
         THEN [f EXCEPT !.val = result.v, !.pc = "returned"]
         ELSE [f EXCEPT !.val = result.exc, !.pc = "raised"]

\* the arguments handed to the original target: *args, **kwargs
PassedArgs(f) == f.args

\* what the provider SDK does with a call: a response of some shape, or an
\* exception
ProviderOutcomes == ResponseShapes \cup {"raise"}
ProviderResult(p, args, out) ==
    IF out = "raise" THEN Raise("ProviderError") ELSE Ok(StubResponse(p, args, out))

\* self._original_*.create(*args, **kwargs) reaching the provider SDK
InvokeReal(t, out) ==
    /\ At(t, {"invoke", "fallback"})
    /\ Resolve = "sdk"
    /\ out \in ProviderOutcomes
    /\ LET result == ProviderResult(provider, PassedArgs(Top(t)), out)
       IN /\ stack' = SetTop(t, Deliver([Top(t) EXCEPT !.nInvoke = @ + 1], result))
          /\ cur' = [cur EXCEPT ![t].nProvider = @ + 1,
                                ![t].events = Append(@, "provider"),
                                ![t].provArgs = PassedArgs(Top(t)),
                                ![t].provRet = IF result.ok THEN result.v ELSE Unset,
                                ![t].provRaised = @ \/ ~result.ok]
    /\ UNCHANGED <<evaluation, wt, provider, client, original, original_model, pending,
                   outcome, calls, chain, own>>

\* self._original_model.generate_content(*args, **kwargs) resolving to the
\* adapter's own intercepted method: the call enters the adapter again
Reenter(t) ==
    /\ At(t, {"invoke", "fallback"})
    /\ Resolve = "adapter"
    /\ Depth(t) < MaxDepth
    /\ stack' = [stack EXCEPT ![t] =
                    Append([@ EXCEPT ![Len(@)] =
                               [@ EXCEPT !.nInvoke = @ + 1,
                                         !.pc = IF @ = "invoke" THEN "wait_invoke"
                                                ELSE "wait_fallback"]],
                           NewFrame(PassedArgs(Top(t))))]
    /\ UNCHANGED <<evaluation, wt, provider, client, original, original_model, pending,
                   outcome, calls, chain, own, cur>>

\* the same call at the interpreter's recursion limit: RecursionError
RecursionLimit(t) ==
    /\ At(t, {"invoke", "fallback"})
    /\ Resolve = "adapter"
    /\ Depth(t) >= MaxDepth
    /\ stack' = SetTop(t, Deliver([Top(t) EXCEPT !.nInvoke = @ + 1],
                                  Raise("RecursionError")))
    /\ UNCHANGED <<evaluation, wt, provider, client, original, original_model, pending,
                   outcome, calls, chain, own, cur>>

\* mutant: the reporter has no try / except
ReporterRaisesUncaught(payload, exchange) ==
    ~payload.ok \/ exchange = "network_error"

\* whether an exception leaves the reporter: its whole body is inside
\* try / except Exception
ReporterRaises(payload, exchange) == FALSE

\* the frame after the reporter has run
CallbackFrame(f, payload, exchange) ==
    LET g == [f EXCEPT !.cb = IF ~payload.ok THEN "extract_error"
                               ELSE IF exchange = "ok" THEN "posted"
                               ELSE "post_failed",
                       !.nCallback = IF payload.ok THEN @ + 1 ELSE @]
    IN IF ReporterRaises(payload, exchange)
       THEN [g EXCEPT !.pc = "fallback"]
       ELSE [g EXCEPT !.val = f.actual_response, !.pc = "returned"]

\* self._wt._send_callback*(trace_id, actual_response, duration_ms)
SendCallback(t, duration_ms, exchange) ==
    /\ At(t, {"callback"})
    /\ duration_ms \in Durations
    /\ exchange \in CallbackExchanges
    /\ LET payload == Reporter(provider, Top(t).trace_id, Top(t).actual_response,
                               duration_ms)
       IN /\ stack' = SetTop(t, CallbackFrame(Top(t), payload, exchange))
          /\ cur' = [cur EXCEPT ![t].posted =
                        IF payload.ok THEN Append(@, payload.v) ELSE @,
                                ![t].events =
                        IF payload.ok THEN Append(@, "callback") ELSE @]
    /\ UNCHANGED <<evaluation, wt, provider, client, original, original_model, pending,
                   outcome, calls, chain, own>>

\* a nested frame ends: its caller, an adapter frame, goes on
ReturnToFrame(t) ==
    /\ At(t, {"returned", "raised"})
    /\ Depth(t) > 1
    /\ LET f == Top(t)
           result == IF f.pc = "returned" THEN Ok(f.val) ELSE Raise(f.val)
           rest == SubSeq(stack[t], 1, Depth(t) - 1)
       IN stack' = [stack EXCEPT ![t] =
                       [rest EXCEPT ![Len(rest)] = Deliver(@, result)]]
    /\ UNCHANGED <<evaluation, wt, provider, client, original, original_model, pending,
                   outcome, calls, chain, own, cur>>

\* the outermost frame ends: the application gets the value or the exception
ReturnToCaller(t) ==
    /\ At(t, {"returned", "raised"})
    /\ Depth(t) = 1
    /\ outcome' = [outcome EXCEPT ![t] = [kind |-> Top(t).pc, val |-> Top(t).val]]
    /\ stack' = [stack EXCEPT ![t] = <<>>]
    /\ UNCHANGED <<evaluation, wt, provider, client, original, original_model, pending,
                   calls, chain, own, cur>>

\* the environment of a run: the arguments the application passes, what the
\* gateway and the provider answer, how long the provider takes
FullEnvironment ==
    [args |-> CreateArgs \cup GenerateArgs, decide |-> DecideExchanges,
     provider |-> ProviderOutcomes, durations |-> Durations,
     callback |-> CallbackExchanges]

\* call path t chains a value on the adapter
ChainStep(t) ==
    \/ \E m \in Metadatas : with_metadata(t, m)
    \/ \E s \in SessionIds : with_session_id(t, s)

\* one step of a completion call of call path t in environment env
CallStep(t, env) ==
    \/ \E args \in env.args : Call(t, args)
    \/ LoadMetadata(t)
    \/ LoadSessionId(t)
    \/ ClearMetadata(t)
    \/ ClearSessionId(t)
    \/ PrepareRequest(t)
    \/ \E exchange \in env.decide : Decide(t, exchange)
    \/ \E out \in env.provider : InvokeReal(t, out)
    \/ Reenter(t)
    \/ RecursionLimit(t)
    \/ \E duration_ms \in env.durations, exchange \in env.callback :
          SendCallback(t, duration_ms, exchange)
    \/ ReturnToFrame(t)
    \/ ReturnToCaller(t)

Step(t) == ChainStep(t) \/ CallStep(t, FullEnvironment)

Wrap ==
    \/ \E inst \in InstanceTypes : WrapAnthropic(inst)
    \/ \E inst \in InstanceTypes, installed \in BOOLEAN : WrapMistral(inst, installed)
    \/ \E m \in GeminiModels, inst \in InstanceTypes, installed \in BOOLEAN :
          WrapGemini(m, inst, installed)
    \/ \E entry \in OpenAIEntries, inst \in InstanceTypes, installed \in BOOLEAN :
          WrapOpenAICompatible(entry, inst, installed)

Next == Wrap \/ \E t \in MainThreads : Step(t)

Spec == Init /\ [][Next]_vars

(***************************************************************************)
(* Two call paths on one adapter instance. The adapter takes no lock, so    *)
(* the statements of the two calls interleave freely.                       *)
(***************************************************************************)
\* an environment with one answer of each kind
SmallEnvironment ==
    [args |-> {Args(<<MessageList>>, NoKeys), Args(<<Str("hello")>>, NoKeys)},
     decide |-> { [kind |-> "network_error"],
                  [kind |-> "response", status |-> 200,
                   body |-> Dict([action |-> Str("cache_hit"), content |-> Str("X")])],
                  [kind |-> "response", status |-> 200,
                   body |-> Dict([action |-> Str("proceed"), trace_id |-> Str("tr1")])] },
     provider |-> {"text", "raise"},
     durations |-> {25},
     callback |-> {"ok"}]

InitConcurrent ==
    /\ Init
    /\ wt = [recall |-> TRUE, environment |-> "production"]

\* no completion call is running
Idle == \A t \in Threads : Depth(t) = 0

\* one call path of the application chains between calls; both call paths
\* issue completion calls
NextConcurrent ==
    \/ Wrap
    \/ Idle /\ \E t \in MainThreads : ChainStep(t)
    \/ \E t \in Threads : CallStep(t, SmallEnvironment)

SpecConcurrent == InitConcurrent /\ [][NextConcurrent]_vars

(***************************************************************************)
(* The library's functions applied on their own: the reporters, the         *)
(* normalizers and the preparation of a request, each on inputs drawn from  *)
(* bounded sets.                                                            *)
(***************************************************************************)
session == <<wt, provider, client, original, original_model, pending, stack,
             outcome, calls, chain, own, cur>>

Families == Providers \cup OpenAIEntries

\* the names a family's response gives its usage object, the explicit total
\* and the two part counts
UsageNames(family) ==
    CASE family = "anthropic" ->
           [usage |-> "usage", total |-> "total_tokens",
            first |-> "input_tokens", second |-> "output_tokens"]
      [] family = "gemini" ->
           [usage |-> "usage_metadata", total |-> "total_token_count",
            first |-> "prompt_token_count", second |-> "candidates_token_count"]
      [] OTHER ->
           [usage |-> "usage", total |-> "total_tokens",
            first |-> "prompt_tokens", second |-> "completion_tokens"]

TokenCounts == {Num(5), Num(10), Num(42)}

\* usage objects carrying any of the three counts, with any values
UsageObjects(family) ==
    LET names == {UsageNames(family).total, UsageNames(family).first,
                  UsageNames(family).second}
    IN {Obj(a) : a \in UNION {[S -> TokenCounts] : S \in SUBSET names}}

\* a response with text in its family's shape and no usage
TextResponse(family) ==
    CASE family = "anthropic" ->
           [content |-> List(<<Obj([type |-> Str("text"), text |-> Str("real")])>>)]
      [] family = "gemini" -> [text |-> Str("real")]
      [] OTHER -> [choices |-> List(<<Obj([message |-> Obj([content |-> Str("real")])])>>)]

WithAttr(a, k, v) == [x \in DOMAIN a \cup {k} |-> IF x = k THEN v ELSE a[x]]

ReporterResponses(family) ==
    {Obj(TextResponse(family))}
    \cup {Obj(WithAttr(TextResponse(family), UsageNames(family).usage, u)) :
             u \in UsageObjects(family) \cup {None}}

TraceIds == {None, Str("tr1")}

ReporterInputs ==
    UNION {{[fn |-> "reporter", family |-> family, trace_id |-> trace_id,
             response |-> response, duration_ms |-> duration_ms, result |-> Unset] :
               trace_id \in TraceIds, response \in ReporterResponses(family),
               duration_ms \in Durations} : family \in Families}

\* the items of a message sequence: mappings and objects with or without a
\* role and a content, and an item that is neither
MessageItems ==
    { Dict([role |-> Str("user"), content |-> Str("hi")]),
      Dict([role |-> Str("assistant"), content |-> Str("yo"), name |-> Str("n")]),
      Dict([content |-> Str("hi")]),
      Dict([role |-> Str("system")]),
      Dict(NoKeys),
      Obj([role |-> Str("assistant"), content |-> Str("yo")]),
      Obj([content |-> Str("hi")]),
      Obj(NoKeys),
      Str("hi") }

MessageSequences ==
    {List(xs) : xs \in UNION {[1..n -> MessageItems] : n \in 0..MaxMessages}}

\* values that are no sequence of messages
OtherValues == {None, Num(7), Str("hello"), Dict([role |-> Str("user")])}

NormalizerInputs ==
    {[fn |-> "convert_messages_to_gateway_format", input |-> v, result |-> Unset] :
        v \in MessageSequences \cup OtherValues}

\* create called with none, one or two positional arguments and with any of
\* the keywords messages and model
OtherMessageList == List(<<Dict([role |-> Str("assistant"), content |-> Str("yo")])>>)
PositionalArgs == {<<>>, <<MessageList>>, <<MessageList, Str("m-positional")>>}
KeywordArgs ==
    { NoKeys,
      [messages |-> OtherMessageList],
      [model |-> Str("m-keyword")],
      [messages |-> OtherMessageList, model |-> Str("m-keyword")] }
CreateCalls == {Args(pos, kw) : pos \in PositionalArgs, kw \in KeywordArgs}
GenerateCalls == GenerateArgs \cup {Args(<<>>, NoKeys)}

PrepareInputs ==
    UNION {{[fn |-> "prepare", provider |-> p, args |-> args, model |-> m,
             metadata |-> metadata, session_id |-> session_id, result |-> Unset] :
               args \in IF p = "gemini" THEN GenerateCalls ELSE CreateCalls,
               m \in IF p = "gemini" THEN GeminiModels ELSE {Obj(NoKeys)},
               metadata \in Metadatas, session_id \in SessionIds \cup {None}} :
           p \in Providers}

\* the items of a Gemini prompt list: mappings, parts-based objects and
\* other items
PromptItems ==
    { Dict([role |-> Str("model"), content |-> Str("yo")]),
      Dict([role |-> Str("user"), parts |-> List(<<Str("p")>>)]),
      Dict([role |-> Str("user"), parts |-> List(<<>>)]),
      Dict(NoKeys),
      Obj([parts |-> List(<<Obj([text |-> Str("hi")])>>)]),
      Obj([parts |-> List(<<>>)]),
      Obj(NoKeys),
      Str("x") }

PromptValues ==
    {List(xs) : xs \in UNION {[1..n -> PromptItems] : n \in 0..MaxMessages}}
    \cup {Str("hello"), None, Num(7)}

GeminiNormalizerInputs ==
    {[fn |-> "gemini_normalizer", input |-> v, result |-> Unset] : v \in PromptValues}

FunctionInputs ==
    ReporterInputs \cup NormalizerInputs \cup PrepareInputs \cup GeminiNormalizerInputs

InitFunctions == InitSession /\ evaluation \in FunctionInputs

\* the family's reporter builds its payload from a response
EvaluateReporter ==
    /\ evaluation.fn = "reporter"
    /\ evaluation.result = Unset
    /\ evaluation' = [evaluation EXCEPT !.result =
                         Reporter(evaluation.family, evaluation.trace_id,
                                  evaluation.response, evaluation.duration_ms)]
    /\ UNCHANGED session

\* the generic normalizer applied to a value
EvaluateNormalizer ==
    /\ evaluation.fn = "convert_messages_to_gateway_format"
    /\ evaluation.result = Unset
    /\ evaluation' = [evaluation EXCEPT !.result =
                         convert_messages_to_gateway_format(evaluation.input)]
    /\ UNCHANGED session

\* an adapter extracts the arguments and builds its request
EvaluatePrepare ==
    /\ evaluation.fn = "prepare"
    /\ evaluation.result = Unset
    /\ evaluation' = [evaluation EXCEPT !.result =
                         Prepare(evaluation.provider, evaluation.args, wt,
                                 evaluation.model, evaluation.metadata,
                                 evaluation.session_id)]
    /\ UNCHANGED session

\* the Gemini adapter's normalizer applied to a prompt
EvaluateGeminiNormalizer ==
    /\ evaluation.fn = "gemini_normalizer"
    /\ evaluation.result = Unset
    /\ evaluation' = [evaluation EXCEPT !.result = GeminiConvertPrompt(evaluation.input)]
    /\ UNCHANGED session

NextFunctions ==
    \/ EvaluateReporter
    \/ EvaluateNormalizer
    \/ EvaluatePrepare
    \/ EvaluateGeminiNormalizer

SpecFunctions == InitFunctions /\ [][NextFunctions]_vars

(***************************************************************************)
(* Properties.                                                              *)
(***************************************************************************)
Frames(t) == {stack[t][i] : i \in 1..Depth(t)}
Ended(f) == f.pc \in {"returned", "raised"}
Outer(t) == stack[t][1]
\* the application's call is about to end: only its own frame is left
CallEnded(t) == Depth(t) = 1 /\ Ended(Outer(t))
EmptyPending == [metadata |-> EmptyMetadata, session_id |-> None]
StubResponses(p, args) == {StubResponse(p, args, shape) : shape \in ResponseShapes}

\* C1: when the decide POST of an intercepted call fails (network error,
\* non-2xx status, a body that is not JSON) and the provider does not raise,
\* the call returns the real provider's response for the original arguments
\* and no exception escapes.
C1_DecideFailureFallsBack ==
    \A t \in Threads :
        (CallEnded(t) /\ Outer(t).gw = "failed" /\ ~cur[t].provRaised)
        => /\ Outer(t).pc = "returned"
           /\ cur[t].nProvider >= 1
           /\ cur[t].provArgs = cur[t].args
           /\ Outer(t).val = cur[t].provRet
           /\ Outer(t).val \in StubResponses(provider, cur[t].args)

\* C2: after wrapping through the entry point, a call whose decide POST
\* gives a non-cache decision reaches the original provider call with the
\* same arguments and returns exactly what that call returned.
C2_PassThroughIsTransparent ==
    \A t \in Threads :
        (CallEnded(t) /\ Outer(t).gw = "proceed" /\ ~cur[t].provRaised)
        => /\ Outer(t).pc = "returned"
           /\ cur[t].nProvider >= 1
           /\ cur[t].provArgs = cur[t].args
           /\ Outer(t).val = cur[t].provRet
           /\ Outer(t).val \in StubResponses(provider, cur[t].args)

\* the provider's canonical content path, read from a response
CanonicalContent(p, response) ==
    CASE p = "anthropic" ->
           LET content == Attr(response, "content")
               first == IF content.ok THEN Index0(content.v) ELSE content
           IN IF first.ok THEN Attr(first.v, "text") ELSE first
      [] p = "mistral" ->
           LET choices == Attr(response, "choices")
               first == IF choices.ok THEN Index0(choices.v) ELSE choices
               message == IF first.ok THEN Attr(first.v, "message") ELSE first
           IN IF message.ok THEN Attr(message.v, "content") ELSE message
      [] p = "gemini" -> Attr(response, "text")

\* Gemini's second content path: candidates[0].content.parts[0].text
CandidateContent(response) ==
    LET candidates == Attr(response, "candidates")
        first == IF candidates.ok THEN Index0(candidates.v) ELSE candidates
        content == IF first.ok THEN Attr(first.v, "content") ELSE first
        parts == IF content.ok THEN Attr(content.v, "parts") ELSE content
        part == IF parts.ok THEN Index0(parts.v) ELSE parts
    IN IF part.ok THEN Attr(part.v, "text") ELSE part

\* the usage object of a response
UsageOf(p, response) ==
    Attr(response, IF p = "gemini" THEN "usage_metadata" ELSE "usage")

\* C3: on a cache hit with content X the synthesized response exposes X
\* through the provider's canonical content path, carries the request's
\* model where the shape has a model field, and every usage field is zero.
C3_CacheHitResponseShape ==
    \A t \in Threads : \A f \in Frames(t) :
        (f.gw = "cache_hit" /\ f.pc = "returned" /\ "content" \in DOMAIN f.decision.d)
        => /\ CanonicalContent(provider, f.val) = Ok(f.decision.d.content)
           /\ provider = "gemini" => CandidateContent(f.val) = Ok(f.decision.d.content)
           /\ HasAttr(f.val, "model") => f.val.a.model = f.request.model
           /\ provider \in {"anthropic", "mistral"} => HasAttr(f.val, "model")
           /\ UsageOf(provider, f.val).ok
           /\ DOMAIN UsageOf(provider, f.val).v.a # {}
           /\ \A k \in DOMAIN UsageOf(provider, f.val).v.a :
                  UsageOf(provider, f.val).v.a[k] = Num(0)

C3_Witness ==
    \E t \in Threads :
        /\ CallEnded(t)
        /\ Outer(t).gw = "cache_hit"
        /\ Outer(t).pc = "returned"
        /\ "content" \in DOMAIN Outer(t).decision.d
        /\ CanonicalContent(provider, Outer(t).val) = Ok(Str("X"))

\* C4: a call whose decide POST answers cache_hit returns without invoking
\* the wrapped provider call and without posting a callback; its only
\* gateway traffic is the one decide POST.
C4_CacheHitDoesNothingElse ==
    \A t \in Threads :
        /\ \A f \in Frames(t) :
              f.gw = "cache_hit"
              => /\ f.pc = "returned"
                 /\ f.nPost = 1
                 /\ f.nInvoke = 0
                 /\ f.nCallback = 0
        /\ (Depth(t) >= 1 /\ Outer(t).gw = "cache_hit")
           => /\ Len(cur[t].sent) = 1
              /\ cur[t].posted = <<>>
              /\ cur[t].nProvider = 0

C4_Witness ==
    \E t \in Threads :
        /\ CallEnded(t)
        /\ Outer(t).gw = "cache_hit"
        /\ Outer(t).pc = "returned"
        /\ Len(cur[t].sent) = 1

HasSessionKey(request) == "external_session_id" \in DOMAIN request

\* C5: after with_metadata(M).with_session_id(S) and one completion call
\* that built its request, exactly one envelope went to the decide endpoint
\* for that call, with metadata M and external_session_id S; a call made
\* without chaining sends only envelopes with metadata {} and no
\* external_session_id key.
C5_ChainedStateInOneEnvelope ==
    \A t \in Threads :
        (CallEnded(t) /\ Outer(t).request # Unset)
        => LET ch == cur[t].chained
               sent == cur[t].sent
           IN /\ (ch.metadata # Unset /\ ch.session_id # Unset)
                 => /\ Len(sent) = 1
                    /\ sent[1].metadata = ch.metadata
                    /\ HasSessionKey(sent[1])
                    /\ sent[1].external_session_id = ch.session_id
              /\ ch = NoChain
                 => \A i \in 1..Len(sent) :
                        /\ sent[i].metadata = EmptyMetadata
                        /\ ~HasSessionKey(sent[i])

\* C6: once a frame is past its consume-and-reset, so in particular when it
\* issues the decide POST and when it ends by any path, the adapter's
\* pending state is {metadata: {}, session_id: None}.
C6_PendingResetBeforeDispatch ==
    \A t \in Threads : \A f \in Frames(t) :
        f.pc \notin {"l29", "l30", "l31", "l32"} => pending = EmptyPending

C6_Witness ==
    \E t \in Threads :
        /\ CallEnded(t)
        /\ Outer(t).gw = "failed"
        /\ Outer(t).pc = "raised"
        /\ cur[t].chained = [metadata |-> Dict([k |-> Str("v")]), session_id |-> Str("s1")]
        /\ pending = EmptyPending

\* C7: the envelope of a completion call has the key external_session_id
\* if and only if with_session_id was called since the previous completion
\* call, with any string, and then its value is the chained session id.
C7_SessionKeyIffChained ==
    \A t \in Threads :
        (Depth(t) >= 1 /\ Outer(t).request # Unset)
        => /\ HasSessionKey(Outer(t).request) <=> cur[t].chained.session_id # Unset
           /\ HasSessionKey(Outer(t).request)
              => Outer(t).request.external_session_id = cur[t].chained.session_id

\* C8: an exception raised during argument extraction, normalization or
\* request building does not escape: the adapter invokes the wrapped
\* provider call with the original arguments and returns its response.
C8_PreparationFailureFallsBack ==
    \A t \in Threads :
        (CallEnded(t) /\ Outer(t).request = Unset)
        => /\ cur[t].nProvider >= 1
           /\ cur[t].provArgs = cur[t].args
           /\ ~cur[t].provRaised
              => /\ Outer(t).pc = "returned"
                 /\ Outer(t).val = cur[t].provRet

\* C9: a failure of the Callback Reporter (reading the response, or the
\* callback POST) stays inside the reporter: the frame returns the response
\* it already has, posts the callback at most once and has invoked its
\* original target exactly once.
C9_ReporterFailureIsContained ==
    \A t \in Threads :
        /\ \A f \in Frames(t) :
              f.cb \in {"extract_error", "post_failed"}
              => /\ f.pc = "returned"
                 /\ f.val = f.actual_response
                 /\ f.nCallback <= 1
                 /\ f.nInvoke = 1
        /\ (Depth(t) >= 1 /\ Outer(t).cb \in {"extract_error", "post_failed"}
               /\ Resolve = "sdk")
           => /\ Outer(t).val = cur[t].provRet
              /\ cur[t].nProvider = 1
              /\ Len(cur[t].posted) <= 1

C9_Witness ==
    \E t \in Threads :
        /\ CallEnded(t)
        /\ Outer(t).cb = "extract_error"
        /\ Outer(t).pc = "returned"
        /\ Outer(t).val = cur[t].provRet
        /\ cur[t].posted = <<>>

\* C10: an intercepted completion call issues exactly one decide POST:
\* never more than one, and one whenever its request was built, whatever
\* happened to the decide POST of this or of an earlier call.
C10_OneDecidePerCall ==
    \A t \in Threads :
        Depth(t) >= 1
        => /\ Len(cur[t].sent) <= 1
           /\ (CallEnded(t) /\ Outer(t).request # Unset) => Len(cur[t].sent) = 1

\* C11: every wrap entry point ends in one of three ways: ImportError exactly
\* when the provider package is absent; TypeError, with the instance's call
\* surface untouched, when the package is there and the instance is not of
\* the provider's client type; otherwise the instance is returned with the
\* adapter on its call surface.
C11_WrapHasThreeOutcomes ==
    client.wrap # "none" =>
        /\ client.wrap \in {"ImportError", "TypeError", "returned"}
        /\ (client.wrap = "ImportError") <=> ~client.installed
        /\ (client.installed /\ client.type # "expected")
              => (client.wrap = "TypeError" /\ client.call = "sdk")
        /\ (client.installed /\ client.type = "expected")
              => (client.wrap = "returned" /\ client.call = "adapter")

\* the usage object of an evaluated response, Unset when there is none
UsageIn(ev) == GetAttr(ev.response, UsageNames(ev.family).usage, Unset)
Reported(ev) == ev.fn = "reporter" /\ ev.result # Unset /\ ev.result.ok

\* C12: the tokens_used of a callback payload is the usage's explicit total
\* when there is one, else the sum of the two part counts when both are
\* there (for Anthropic always the sum of input and output tokens), and 0
\* when the response has no usage.
C12_TokensUsed ==
    Reported(evaluation) =>
        LET usage == UsageIn(evaluation)
            names == UsageNames(evaluation.family)
            tokens == evaluation.result.v.tokens_used
        IN /\ usage = Unset => tokens = Num(0)
           /\ (evaluation.family # "anthropic" /\ HasAttr(usage, names.total))
                 => tokens = usage.a[names.total]
           /\ (/\ evaluation.family = "anthropic" \/ ~HasAttr(usage, names.total)
               /\ HasAttr(usage, names.first) /\ HasAttr(usage, names.second))
                 => tokens = Num(usage.a[names.first].n + usage.a[names.second].n)

\* an OpenAI-shaped response with total_tokens = 42 beside prompt_tokens = 10
\* and completion_tokens = 5 was reported with 42
C12_Witness ==
    /\ Reported(evaluation)
    /\ evaluation.family = "openai"
    /\ HasAttr(UsageIn(evaluation), "total_tokens")
    /\ UsageIn(evaluation).a.total_tokens = Num(42)
    /\ HasAttr(UsageIn(evaluation), "prompt_tokens")
    /\ HasAttr(UsageIn(evaluation), "completion_tokens")
    /\ evaluation.result.v.tokens_used = Num(42)

\* the value an item gives for a field: by key for a mapping, by attribute
\* for an object, the default when it has none
FieldOf(item, k, default) ==
    IF item.t = "dict" THEN (IF k \in DOMAIN item.d THEN item.d[k] ELSE default)
    ELSE IF item.t = "obj" /\ k \in DOMAIN item.a THEN item.a[k]
    ELSE default
Normalized(ev) == ev.fn = "convert_messages_to_gateway_format" /\ ev.result # Unset

\* C13: the generic normalizer maps a message sequence to a sequence of the
\* same length and order whose item i has exactly the keys role and content,
\* taken from input item i, role defaulting to "user" and content to "";
\* [{role: user, content: hi}] maps to itself.
C13_NormalizerKeepsShape ==
    (Normalized(evaluation) /\ evaluation.input \in MessageSequences) =>
        LET in == evaluation.input.xs
            res == evaluation.result
        IN /\ res.ok
           /\ res.v.t = "list"
           /\ Len(res.v.xs) = Len(in)
           /\ \A i \in 1..Len(in) :
                 /\ res.v.xs[i].t = "dict"
                 /\ DOMAIN res.v.xs[i].d = {"role", "content"}
                 /\ res.v.xs[i].d.role = FieldOf(in[i], "role", Str("user"))
                 /\ res.v.xs[i].d.content = FieldOf(in[i], "content", Str(""))
           /\ evaluation.input = MessageList => res.v = MessageList

\* a sequence of two different items, the second an object with no role, was
\* normalized
C13_Witness ==
    /\ Normalized(evaluation)
    /\ evaluation.input = List(<<Dict([role |-> Str("assistant"), content |-> Str("yo"),
                                       name |-> Str("n")]),
                                 Obj([content |-> Str("hi")])>>)
    /\ evaluation.result.ok
    /\ evaluation.result.v.xs[2] = CanonicalMessage(Str("user"), Str("hi"))

\* C14: when two completion calls run at the same time on one adapter after
\* the state (M, S) was chained once, at most one request envelope carries
\* it: the call that was issued with nothing chained since the other call
\* began sends metadata {} and no external_session_id.
C14_OneCallConsumesChainedState ==
    \A t, u \in Threads :
        (/\ t # u
         /\ Depth(t) >= 1 /\ Depth(u) >= 1
         /\ Outer(t).request # Unset /\ Outer(u).request # Unset
         /\ cur[u].chained = NoChain)
        => /\ Outer(u).request.metadata = EmptyMetadata
           /\ ~HasSessionKey(Outer(u).request)

\* the payloads the reporter can build from a response
PayloadsOf(trace_id, response) ==
    {Reporter(provider, trace_id, response, d) : d \in Durations}

\* C15: a pass-through call whose reporter built a payload went through
\* decide POST, provider call with the application's arguments, one callback
\* POST with the decision's trace_id and the content and tokens of the
\* provider's response, and returned that response; and a callback is posted
\* only after a provider call has completed, never on a cache hit or on the
\* fallback path.
C15_PassThroughOrder ==
    \A t \in Threads :
        /\ (/\ CallEnded(t)
            /\ Outer(t).gw = "proceed"
            /\ Outer(t).nCallback > 0)
           => /\ cur[t].events = <<"decide", "provider", "callback">>
              /\ cur[t].provArgs = cur[t].args
              /\ Len(cur[t].posted) = 1
              /\ cur[t].provRet # Unset
              /\ cur[t].posted[1].trace_id = DictGet(Outer(t).decision, "trace_id", None)
              /\ Ok(cur[t].posted[1]) \in
                    PayloadsOf(cur[t].posted[1].trace_id, cur[t].provRet)
              /\ Outer(t).pc = "returned"
              /\ Outer(t).val = cur[t].provRet
        /\ \A i \in 1..Len(cur[t].events) :
              cur[t].events[i] = "callback"
                 => (i > 1 /\ cur[t].events[i - 1] = "provider")
        /\ \A f \in Frames(t) : f.nCallback > 0 => f.gw = "proceed"

RequestPrepared(ev) == ev.fn = "prepare" /\ ev.result # Unset
DefaultModel(p) ==
    CASE p = "anthropic" -> Str("claude-3-5-sonnet-20241022")
      [] p = "mistral" -> Str("mistral-large-latest")
      [] p = "gemini" -> Str("gemini-pro")

\* C16: extraction does not fail on absent fields and follows a fixed
\* precedence: messages is the keyword, else the first positional argument,
\* else []; model is the keyword, else the second positional argument, else
\* the provider's default; for Gemini the model is the wrapped model's
\* _model_name, else "gemini-pro".  The envelope carries that model.
C16_ExtractionPrecedence ==
    RequestPrepared(evaluation) =>
        LET args == evaluation.args
            res == evaluation.result
            p == evaluation.provider
        IN IF p = "gemini"
           THEN /\ (args.pos = <<>> /\ DOMAIN args.kw = {}) => res.ok
                /\ res.ok =>
                      /\ res.v.request.model =
                            IF "_model_name" \in DOMAIN evaluation.model.a
                            THEN evaluation.model.a["_model_name"]
                            ELSE DefaultModel(p)
                      /\ res.v.model = res.v.request.model
           ELSE /\ res.ok
                /\ res.v.request.messages =
                      IF "messages" \in DOMAIN args.kw THEN args.kw.messages
                      ELSE IF Len(args.pos) >= 1 THEN args.pos[1]
                      ELSE List(<<>>)
                /\ res.v.request.model =
                      IF "model" \in DOMAIN args.kw THEN args.kw.model
                      ELSE IF Len(args.pos) >= 2 THEN args.pos[2]
                      ELSE DefaultModel(p)
                /\ res.v.model = res.v.request.model

\* create was called with messages both as keyword and as first positional
\* argument and with no model: the keyword's messages and the default model
\* are in the envelope
C16_Witness ==
    /\ RequestPrepared(evaluation)
    /\ evaluation.provider = "mistral"
    /\ evaluation.args = Args(<<MessageList>>, [messages |-> OtherMessageList])
    /\ evaluation.result.ok
    /\ evaluation.result.v.request.messages = OtherMessageList
    /\ evaluation.result.v.request.model = Str("mistral-large-latest")

IsCanonicalMessages(v) ==
    /\ v.t = "list"
    /\ \A i \in 1..Len(v.xs) :
          v.xs[i].t = "dict" /\ DOMAIN v.xs[i].d = {"role", "content"}

\* C17: neither normalizer raises: every input yields canonical messages;
\* the Gemini variant gives a parts-based item the text of its first part,
\* and an item whose parts are absent or empty gets empty content.
C17_NormalizationNeverRaises ==
    /\ Normalized(evaluation)
       => (evaluation.result.ok /\ IsCanonicalMessages(evaluation.result.v))
    /\ (evaluation.fn = "gemini_normalizer" /\ evaluation.result # Unset)
       => /\ evaluation.result.ok
          /\ IsCanonicalMessages(evaluation.result.v)
          /\ evaluation.input.t = "list"
             => \A i \in 1..Len(evaluation.input.xs) :
                   LET item == evaluation.input.xs[i]
                       out == evaluation.result.v.xs[i]
                   IN /\ (HasAttr(item, "parts") /\ Truthy(item.a.parts))
                         => out.d.content = item.a.parts.xs[1].a.text
                      /\ (HasAttr(item, "parts") /\ ~Truthy(item.a.parts))
                         => out.d.content = Str("")
                      /\ (item.t = "dict" /\ "content" \notin DOMAIN item.d
                          /\ ("parts" \in DOMAIN item.d => ~Truthy(item.d.parts)))
                         => out.d.content = Str("")

\* C18: every envelope sent to the decide endpoint has features.trace true,
\* resilience and adapt false, recall and environment of the session, and
\* the provider name of its adapter, whatever was chained.
C18_EnvelopeFixedFields ==
    \A t \in Threads : \A i \in 1..Len(cur[t].sent) :
        LET request == cur[t].sent[i]
        IN /\ request.features.trace = TRUE
           /\ request.features.resilience = FALSE
           /\ request.features.adapt = FALSE
           /\ request.features.recall = wt.recall
           /\ request.environment = wt.environment
           /\ request.provider = client.entry

\* an envelope went out for a session with recall on, from a call that had
\* metadata and a session id chained
C18_Witness ==
    \E t \in Threads :
        /\ Len(cur[t].sent) > 0
        /\ wt.recall
        /\ wt.environment = "staging"
        /\ cur[t].sent[1].metadata = Dict([k |-> Str("v")])
        /\ HasSessionKey(cur[t].sent[1])
        /\ cur[t].sent[1].features.recall

\* the value last chained for a field, or the field's empty value
LastChained(ch) ==
    [metadata |-> IF ch.metadata = Unset THEN EmptyMetadata ELSE ch.metadata,
     session_id |-> IF ch.session_id = Unset THEN None ELSE ch.session_id]

\* C19: chaining does no I/O and touches only its own field: between calls
\* the pending state holds, for each field, the value chained last (not a
\* merge) or the field's empty value, no traffic exists before the first
\* call, and the envelope of the next call carries the value chained last
\* for each field.
C19_ChainingFrameAndLastWrite ==
    /\ (provider \in Providers /\ \A t \in MainThreads : Depth(t) = 0)
       => pending = LastChained(chain)
    /\ calls = 0 => \A t \in Threads : cur[t] = NoTraffic /\ outcome[t] = NoOutcome
    /\ \A t \in MainThreads :
          (Depth(t) >= 1 /\ Outer(t).request # Unset)
          => /\ Outer(t).request.metadata = LastChained(cur[t].chained).metadata
             /\ cur[t].chained.session_id # Unset
                => /\ HasSessionKey(Outer(t).request)
                   /\ Outer(t).request.external_session_id = cur[t].chained.session_id

\* C20: one intercepted call invokes the provider at most once on every
\* path; when decide gave a non-cache decision and the provider call raised,
\* the provider was invoked once and the caller gets that exception.
C20_ProviderInvokedAtMostOnce ==
    \A t \in Threads :
        /\ cur[t].nProvider <= 1
        /\ (CallEnded(t) /\ Outer(t).gw = "proceed" /\ cur[t].provRaised)
           => /\ Outer(t).pc = "raised"
              /\ Outer(t).val = "ProviderError"

\* C21: a call on a wrapped instance never re-enters the adapter: when a
\* frame calls its original target, the target is the provider SDK and not
\* the adapter's own intercepted method; one call has one adapter frame and
\* sends at most one decide POST.
C21_CallNeverReentersAdapter ==
    \A t \in Threads :
        /\ At(t, {"invoke", "fallback"}) => Resolve = "sdk"
        /\ Depth(t) <= 1
        /\ Len(cur[t].sent) <= 1

\* C22: chained state is consumed only by the call path that set it: a
\* call of a path that chained nothing since its own last call sends
\* metadata {} and no external_session_id, whatever another path chained on
\* the same adapter; and a call of the only path that chained since the
\* last call sends what was chained.
C22_ChainedStateStaysWithItsPath ==
    \A t \in Threads :
        (Depth(t) >= 1 /\ Outer(t).request # Unset)
        => /\ ~own.issued[t].mine
              => /\ Outer(t).request.metadata = EmptyMetadata
                 /\ ~HasSessionKey(Outer(t).request)
           /\ own.issued[t].by = {t}
              => /\ Outer(t).request.metadata = LastChained(cur[t].chained).metadata
                 /\ Truthy(LastChained(cur[t].chained).session_id)
                    => /\ HasSessionKey(Outer(t).request)
                       /\ Outer(t).request.external_session_id
                             = cur[t].chained.session_id

====
